---- MODULE Spec2Model ----
(***************************************************************************)
(* The demo package of nickmerrett/shadow (apps/indexing/src/demo) as a    *)
(* state machine.                                                          *)
(*                                                                         *)
(*  - Module bodies are sequences of top-level statements executed by the  *)
(*    import system (sys.modules, per-module namespaces, a stack of the    *)
(*    modules being executed).                                             *)
(*  - Function bodies are sequences of stack-machine instructions in the   *)
(*    order Python evaluates the source expression (callee, arguments      *)
(*    left to right, call, operator, return).  Global names are looked up  *)
(*    in the namespace of the module that defines the running function.    *)
(*  - solve_quadratic is a function like the others, its code a sequence   *)
(*    of its five statements (source lines 9 to 13).  Spec calls it as     *)
(*    main does; SpecAlgebra calls it on every triple of bounded           *)
(*    coefficients.                                                        *)
(***************************************************************************)
EXTENDS Integers, Sequences, FiniteSets, TLC

VARIABLES
    sys_modules,  \* modules entered in sys.modules
    ns,           \* ns[m][n]: the object bound to global name n of module m
    istack,       \* modules whose bodies are executing, innermost last
    isteps,       \* statements executed by the import system so far
    frames,       \* call stack of function frames, innermost last
    heap,         \* heap[i]: attributes of the i-th Greeter instance
    created,      \* created[i]: the argument the i-th Greeter was built with
    op,           \* the call main is making (or made last)
    result,       \* what that call returned
    exc,          \* the exception that ended the program, or "none"
    calls,        \* call events of the current call of main, in order
    returns,      \* return events of the current call of main, in order
    steps         \* instructions executed for the current call of main

vars == <<sys_modules, ns, istack, isteps, frames, heap, created, op, result,
          exc, calls, returns, steps>>

importVars  == <<sys_modules, ns, istack, isteps>>
moduleVars == <<sys_modules, ns, istack>>
machineVars == <<frames, heap, created, op, result, exc, calls, returns, steps>>

----------------------------------------------------------------------------
(* Bounds of the model.                                                    *)

MaxInt     == 3   \* main passes integers in -MaxInt .. MaxInt
MaxInst    == 2   \* Greeter instances main creates
MaxNameLen == 1   \* length of the names main passes to Greeter
MaxCoef    == 1   \* solve_quadratic coefficients in -MaxCoef .. MaxCoef
MidExp     == 100 \* b is also 10^MidExp or -10^MidExp (its square a float)
BigExp     == 200 \* and 10^BigExp or -10^BigExp (its square out of range)

Chars == {"S", "h"}

Ints == -MaxInt .. MaxInt

RECURSIVE StringsUpTo(_)
StringsUpTo(n) ==
    IF n = 0 THEN {<<>>}
    ELSE LET shorter == StringsUpTo(n - 1)
         IN  shorter \cup {Append(s, c) : s \in shorter, c \in Chars}

NameStrings == StringsUpTo(MaxNameLen)

----------------------------------------------------------------------------
(* Python objects.  A str is the sequence of its characters.               *)

IntVal(n)       == [t |-> "int", v |-> n]
StrVal(s)       == [t |-> "str", v |-> s]
NoneVal         == [t |-> "none", v |-> 0]
Unbound         == [t |-> "unbound", v |-> 0]
FuncVal(m, q)   == [t |-> "func", v |-> [mod |-> m, name |-> q]]
ClassVal(m, q)  == [t |-> "class", v |-> [mod |-> m, name |-> q]]
ModuleVal(m)    == [t |-> "module", v |-> m]
BuiltinVal(q)   == [t |-> "builtin", v |-> q]
InstVal(i)      == [t |-> "inst", v |-> i]
ListVal(s)      == [t |-> "list", v |-> s]
TupleVal(s)     == [t |-> "tuple", v |-> s]
FloatVal(x)     == [t |-> "float", v |-> x]    \* the float x.m * 10^x.e
BigIntVal(x)    == [t |-> "bigint", v |-> x]   \* the int x.m * 10^x.e, any size
PiVal(n)        == [t |-> "pi", v |-> n]       \* the float math.pi * n

----------------------------------------------------------------------------
(* Instructions.                                                           *)

LoadFast(n)   == [op |-> "load_fast", arg |-> n]
LoadGlobal(n) == [op |-> "load_global", arg |-> n]
LoadConst(c)  == [op |-> "load_const", arg |-> c]
LoadAttr(n)   == [op |-> "load_attr", arg |-> n]
StoreAttr(n)  == [op |-> "store_attr", arg |-> n]
Call(argc)    == [op |-> "call", arg |-> argc]
BinaryOp(o)   == [op |-> "binary_op", arg |-> o]
FormatValue   == [op |-> "format_value", arg |-> 0]
BuildString(k) == [op |-> "build_string", arg |-> k]
ReturnValue   == [op |-> "return_value", arg |-> 0]
Line(n)       == [op |-> "line", arg |-> n]     \* the statement on line n

----------------------------------------------------------------------------
(* foo.py                                                                  *)

\* def _increment(y): return y + 1
_increment ==
    [params |-> <<"y">>,
     code   |-> <<LoadFast("y"), LoadConst(IntVal(1)), BinaryOp("+"),
                  ReturnValue>>]

\* foo with the helper applied twice: return _increment(_increment(x))
foo_twice ==
    [params |-> <<"x">>,
     code   |-> <<LoadGlobal("_increment"), LoadGlobal("_increment"),
                  LoadFast("x"), Call(1), Call(1), ReturnValue>>]

\* def foo(x): return _increment(x)
foo ==
    [params |-> <<"x">>,
     code   |-> <<LoadGlobal("_increment"), LoadFast("x"), Call(1),
                  ReturnValue>>]

----------------------------------------------------------------------------
(* bar.py                                                                  *)

\* double_foo with the wrong operator: return foo(x) + 2
double_foo_plus ==
    [params |-> <<"x">>,
     code   |-> <<LoadGlobal("foo"), LoadFast("x"), Call(1),
                  LoadConst(IntVal(2)), BinaryOp("+"), ReturnValue>>]

\* def double_foo(x): return foo(x) * 2
double_foo ==
    [params |-> <<"x">>,
     code   |-> <<LoadGlobal("foo"), LoadFast("x"), Call(1),
                  LoadConst(IntVal(2)), BinaryOp("*"), ReturnValue>>]

\* triple_foo adding double_foo twice: return double_foo(x) + double_foo(x)
triple_foo_doubles ==
    [params |-> <<"x">>,
     code   |-> <<LoadGlobal("double_foo"), LoadFast("x"), Call(1),
                  LoadGlobal("double_foo"), LoadFast("x"), Call(1),
                  BinaryOp("+"), ReturnValue>>]

\* triple_foo with a single call: return 3 * foo(x)
triple_foo_one_call ==
    [params |-> <<"x">>,
     code   |-> <<LoadConst(IntVal(3)), LoadGlobal("foo"), LoadFast("x"),
                  Call(1), BinaryOp("*"), ReturnValue>>]

\* triple_foo with its operands exchanged: return foo(x) + double_foo(x)
triple_foo_swapped ==
    [params |-> <<"x">>,
     code   |-> <<LoadGlobal("foo"), LoadFast("x"), Call(1),
                  LoadGlobal("double_foo"), LoadFast("x"), Call(1),
                  BinaryOp("+"), ReturnValue>>]

\* def triple_foo(x): return double_foo(x) + foo(x)
triple_foo ==
    [params |-> <<"x">>,
     code   |-> <<LoadGlobal("double_foo"), LoadFast("x"), Call(1),
                  LoadGlobal("foo"), LoadFast("x"), Call(1),
                  BinaryOp("+"), ReturnValue>>]

\* def _format_greeting(name): return f"Hello, {name}!"
_format_greeting ==
    [params |-> <<"name">>,
     code   |-> <<LoadConst(StrVal(<<"H", "e", "l", "l", "o", ",", " ">>)),
                  LoadFast("name"), FormatValue,
                  LoadConst(StrVal(<<"!">>)), BuildString(3), ReturnValue>>]

\* def __init__(self, name): self.name = name
Greeter_init ==
    [params |-> <<"self", "name">>,
     code   |-> <<LoadFast("name"), LoadFast("self"), StoreAttr("name"),
                  LoadConst(NoneVal), ReturnValue>>]

\* greet formatting in place: return f"Hello, {self.name}!"
Greeter_greet_inline ==
    [params |-> <<"self">>,
     code   |-> <<LoadConst(StrVal(<<"H", "e", "l", "l", "o", ",", " ">>)),
                  LoadFast("self"), LoadAttr("name"), FormatValue,
                  LoadConst(StrVal(<<"!">>)), BuildString(3), ReturnValue>>]

\* greet keeping its result:
\*   self.name = _format_greeting(self.name); return self.name
Greeter_greet_stores ==
    [params |-> <<"self">>,
     code   |-> <<LoadGlobal("_format_greeting"), LoadFast("self"),
                  LoadAttr("name"), Call(1), LoadFast("self"),
                  StoreAttr("name"), LoadFast("self"), LoadAttr("name"),
                  ReturnValue>>]

\* def greet(self): return _format_greeting(self.name)
Greeter_greet ==
    [params |-> <<"self">>,
     code   |-> <<LoadGlobal("_format_greeting"), LoadFast("self"),
                  LoadAttr("name"), Call(1), ReturnValue>>]

----------------------------------------------------------------------------
(* package/geometry.py, package/algebra.py                                 *)

\* def area_circle(radius): return math.pi * radius ** 2
area_circle ==
    [params |-> <<"radius">>,
     code   |-> <<LoadGlobal("math"), LoadAttr("pi"), LoadFast("radius"),
                  LoadConst(IntVal(2)), BinaryOp("**"), BinaryOp("*"),
                  ReturnValue>>]

\* def perimeter_rectangle(width, height): return 2 * (width + height)
perimeter_rectangle ==
    [params |-> <<"width", "height">>,
     code   |-> <<LoadConst(IntVal(2)), LoadFast("width"), LoadFast("height"),
                  BinaryOp("+"), BinaryOp("*"), ReturnValue>>]

\* def solve_quadratic(a, b, c): the statements of lines 9 to 13
solve_quadratic ==
    [params |-> <<"a", "b", "c">>,
     code   |-> <<Line(9), Line(10), Line(11), Line(12), Line(13)>>]

----------------------------------------------------------------------------
(* Modules and their top-level statements.                                 *)

M_demo     == <<"demo">>
M_foo      == <<"demo", "foo">>
M_bar      == <<"demo", "bar">>
M_package  == <<"demo", "package">>
M_algebra  == <<"demo", "package", "algebra">>
M_geometry == <<"demo", "package", "geometry">>
M_main     == <<"__main__">>

Modules  == {M_demo, M_foo, M_bar, M_package, M_algebra, M_geometry, M_main}
Packages == {M_demo, M_package}

GlobalNames ==
    {"_increment", "foo", "double_foo", "triple_foo", "_format_greeting",
     "Greeter", "__all__", "bar", "package", "algebra", "geometry",
     "solve_quadratic", "area_circle", "perimeter_rectangle", "Tuple",
     "math", "main"}

ImportFrom(level, module, names) ==
    [op |-> "import_from", level |-> level, module |-> module, names |-> names]
ImportStd(name, obj) == [op |-> "import_std", name |-> name, obj |-> obj]
Def(name)            == [op |-> "def", name |-> name]
ClassDef(name)       == [op |-> "class", name |-> name]
Assign(name, val)    == [op |-> "assign", name |-> name, val |-> val]
IfMain               == [op |-> "if_main"]

\* demo/__init__.py
demo_init ==
    <<ImportFrom(1, <<"foo">>, <<"foo">>),
      ImportFrom(1, <<"bar">>, <<"double_foo", "Greeter">>),
      Assign("__all__", ListVal(<<"foo", "double_foo", "Greeter", "package">>))>>

\* demo/foo.py
foo_py == <<Def("_increment"), Def("foo")>>

\* bar.py defining a foo of its own instead of importing foo.py's
bar_py_own_foo ==
    <<Def("foo"),
      Def("double_foo"), Def("triple_foo"), Def("_format_greeting"),
      ClassDef("Greeter")>>

\* demo/bar.py
bar_py ==
    <<ImportFrom(1, <<"foo">>, <<"foo">>),
      Def("double_foo"), Def("triple_foo"), Def("_format_greeting"),
      ClassDef("Greeter")>>

\* demo/package/algebra.py
algebra_py ==
    <<ImportStd("Tuple", BuiltinVal("typing.Tuple")),
      ImportStd("math", ModuleVal(<<"math">>)),
      Def("solve_quadratic")>>

\* demo/package/geometry.py
geometry_py ==
    <<ImportStd("math", ModuleVal(<<"math">>)),
      Def("area_circle"), Def("perimeter_rectangle")>>

\* demo/scripts/run_demo.py, run as a script
run_demo_py ==
    <<ImportFrom(0, M_foo, <<"foo">>),
      ImportFrom(0, M_bar, <<"double_foo", "triple_foo", "Greeter">>),
      ImportFrom(0, M_geometry, <<"area_circle", "perimeter_rectangle">>),
      ImportFrom(0, M_algebra, <<"solve_quadratic">>),
      Def("main"),
      IfMain>>

Body(m) ==
    CASE m = M_demo     -> demo_init
      [] m = M_foo      -> foo_py
      [] m = M_bar      -> bar_py
      [] m = M_algebra  -> algebra_py
      [] m = M_geometry -> geometry_py
      [] m = M_main     -> run_demo_py
      [] OTHER          -> <<>>     \* demo/package has no __init__.py

Parent(m) == SubSeq(m, 1, Len(m) - 1)
Last(s)   == s[Len(s)]

\* The module a statement "from <dots><module> import ..." of module m names.
ImportTarget(m, st) ==
    IF st.level = 0 THEN st.module
    ELSE (IF m \in Packages THEN m ELSE Parent(m)) \o st.module

\* The packages on the way to module m, outermost first, and m itself.
Prefixes(m) == [i \in 1 .. Len(m) |-> SubSeq(m, 1, i)]

----------------------------------------------------------------------------
(* The import system.                                                      *)

Top(s) == s[Len(s)]
Pop(s) == SubSeq(s, 1, Len(s) - 1)

F(m, q) == [mod |-> m, name |-> q]

MainFn == F(M_main, "main")

\* The frame of main(): it stays at the bottom of the call stack while main
\* makes its calls.
MainFrame == [fn |-> MainFn, pc |-> 0, locals |-> <<>>, stack |-> <<>>]

Importing == istack # <<>>

CurStmt ==
    LET f == Top(istack) IN Body(f.mod)[f.pc]

AtStmt(kind) ==
    /\ Importing
    /\ exc = "none"
    /\ Top(istack).pc <= Len(Body(Top(istack).mod))
    /\ CurStmt.op = kind

AdvanceImport ==
    istack' = [istack EXCEPT ![Len(istack)].pc = @ + 1]

Bind(m, n, val) == ns' = [ns EXCEPT ![m][n] = val]

\* def: bind the name to the function object this statement creates.
ExecDef ==
    /\ AtStmt("def")
    /\ Bind(Top(istack).mod, CurStmt.name, FuncVal(Top(istack).mod, CurStmt.name))
    /\ AdvanceImport
    /\ isteps' = isteps + 1
    /\ UNCHANGED <<sys_modules, machineVars>>

\* class: bind the name to the class object.
ExecClass ==
    /\ AtStmt("class")
    /\ Bind(Top(istack).mod, CurStmt.name, ClassVal(Top(istack).mod, CurStmt.name))
    /\ AdvanceImport
    /\ isteps' = isteps + 1
    /\ UNCHANGED <<sys_modules, machineVars>>

\* __all__ = [...]
ExecAssign ==
    /\ AtStmt("assign")
    /\ Bind(Top(istack).mod, CurStmt.name, CurStmt.val)
    /\ AdvanceImport
    /\ isteps' = isteps + 1
    /\ UNCHANGED <<sys_modules, machineVars>>

\* import math / from typing import Tuple: standard-library objects.
ExecImportStd ==
    /\ AtStmt("import_std")
    /\ Bind(Top(istack).mod, CurStmt.name, CurStmt.obj)
    /\ AdvanceImport
    /\ isteps' = isteps + 1
    /\ UNCHANGED <<sys_modules, machineVars>>

\* The first module on the way to the target that is not in sys.modules.
NotLoaded(target) ==
    {i \in 1 .. Len(target) : Prefixes(target)[i] \notin sys_modules}

FirstNotLoaded(target) ==
    Prefixes(target)[CHOOSE i \in NotLoaded(target) :
                        \A j \in NotLoaded(target) : i <= j]

\* from M import ...: M or one of its packages is not loaded yet; enter it in
\* sys.modules and execute its body.
ImportLoad ==
    /\ AtStmt("import_from")
    /\ LET target == ImportTarget(Top(istack).mod, CurStmt)
       IN  /\ NotLoaded(target) # {}
           /\ sys_modules' = sys_modules \cup {FirstNotLoaded(target)}
           /\ istack' = Append(istack, [mod |-> FirstNotLoaded(target), pc |-> 1])
    /\ isteps' = isteps + 1
    /\ UNCHANGED <<ns, machineVars>>

\* The namespace of module m after "from target import names".
BindAll(space, m, target, names) ==
    [space EXCEPT ![m] =
        [n \in GlobalNames |->
            IF \E k \in 1 .. Len(names) : names[k] = n
            THEN space[target][n] ELSE space[m][n]]]

\* from M import a, b: M is in sys.modules; bind each name to the object M's
\* namespace holds for it (ImportError when M has no such name).
ImportBind ==
    /\ AtStmt("import_from")
    /\ LET m      == Top(istack).mod
           target == ImportTarget(m, CurStmt)
           names  == CurStmt.names
       IN  /\ NotLoaded(target) = {}
           /\ IF \E k \in 1 .. Len(names) : ns[target][names[k]].t = "unbound"
              THEN /\ exc' = "ImportError"
                   /\ UNCHANGED <<ns, istack>>
              ELSE /\ ns' = BindAll(ns, m, target, names)
                   /\ AdvanceImport
                   /\ exc' = exc
    /\ isteps' = isteps + 1
    /\ UNCHANGED <<sys_modules, frames, heap, created, op, result, calls,
                   returns, steps>>

\* The end of a module body: the module becomes an attribute of its package.
ModuleEnd ==
    /\ Importing
    /\ exc = "none"
    /\ LET m == Top(istack).mod
       IN  /\ Top(istack).pc > Len(Body(m))
           /\ IF Len(m) > 1
              THEN Bind(Parent(m), Last(m), ModuleVal(m))
              ELSE ns' = ns
    /\ istack' = Pop(istack)
    /\ isteps' = isteps + 1
    /\ UNCHANGED <<sys_modules, machineVars>>

\* if __name__ == "__main__": main()   (the script is run as __main__, so
\* the test holds): main is called; the statement ends when main returns.
ExecIfMain ==
    /\ AtStmt("if_main")
    /\ frames = <<>>
    /\ IF ns[Top(istack).mod]["main"].t # "func"
       THEN exc' = "NameError" /\ UNCHANGED frames
       ELSE frames' = <<MainFrame>> /\ exc' = exc
    /\ isteps' = isteps + 1
    /\ UNCHANGED <<moduleVars, heap, created, op, result, calls,
                   returns, steps>>

ImportStep ==
    \/ ExecDef
    \/ ExecClass
    \/ ExecAssign
    \/ ExecImportStd
    \/ ImportLoad
    \/ ImportBind
    \/ ModuleEnd
    \/ ExecIfMain

----------------------------------------------------------------------------
(* Function objects and the call stack.                                    *)

\* The code a function object runs.
FunctionBody(f) ==
    CASE f = F(M_foo, "_increment")       -> _increment
      [] f = F(M_foo, "foo")              -> foo
      [] f = F(M_bar, "double_foo")       -> double_foo
      [] f = F(M_bar, "triple_foo")       -> triple_foo
      [] f = F(M_bar, "_format_greeting") -> _format_greeting
      [] f = F(M_bar, "Greeter.__init__") -> Greeter_init
      [] f = F(M_bar, "Greeter.greet")    -> Greeter_greet
      [] f = F(M_geometry, "area_circle")         -> area_circle
      [] f = F(M_geometry, "perimeter_rectangle") -> perimeter_rectangle
      [] f = F(M_algebra, "solve_quadratic")      -> solve_quadratic

\* The function a class holds under an attribute name.
Method(cls, attr) == F(cls.mod, cls.name \o "." \o attr)

\* A new frame of function f called with the argument sequence args.
NewFrame(f, args) ==
    LET ps == FunctionBody(f).params
    IN  [fn     |-> f,
         pc     |-> 1,
         locals |-> [n \in {ps[k] : k \in 1 .. Len(ps)} |->
                        args[CHOOSE k \in 1 .. Len(ps) : ps[k] = n]],
         stack  |-> <<>>]

\* A function called by main, directly or not, is running.
Running == Len(frames) > 1 /\ exc = "none"

Cur == Top(frames)
Ins == FunctionBody(Cur.fn).code[Cur.pc]

At(kind) == Running /\ Ins.op = kind

\* The running frame with value val pushed and the next instruction current.
Push(val) ==
    frames' = [frames EXCEPT ![Len(frames)].stack = Append(@, val),
                             ![Len(frames)].pc = @ + 1]

\* The running frame with its k topmost values replaced by val.
Replace(k, val) ==
    frames' = [frames EXCEPT
                 ![Len(frames)].stack =
                     Append(SubSeq(@, 1, Len(@) - k), val),
                 ![Len(frames)].pc = @ + 1]

Raise(e) == exc' = e /\ UNCHANGED frames

\* The k topmost values of the running frame, deepest first.
TopK(k) == SubSeq(Cur.stack, Len(Cur.stack) - k + 1, Len(Cur.stack))

ExecLoadFast ==
    /\ At("load_fast")
    /\ Push(Cur.locals[Ins.arg])
    /\ steps' = steps + 1
    /\ UNCHANGED <<importVars, heap, created, op, result, exc, calls, returns>>

\* A global name is looked up in the module that defines the function.
ExecLoadGlobal ==
    /\ At("load_global")
    /\ IF ns[Cur.fn.mod][Ins.arg].t = "unbound"
       THEN Raise("NameError")
       ELSE Push(ns[Cur.fn.mod][Ins.arg]) /\ exc' = exc
    /\ steps' = steps + 1
    /\ UNCHANGED <<importVars, heap, created, op, result, calls, returns>>

ExecLoadConst ==
    /\ At("load_const")
    /\ Push(Ins.arg)
    /\ steps' = steps + 1
    /\ UNCHANGED <<importVars, heap, created, op, result, exc, calls, returns>>

\* The attributes of the module math that the package uses.
MathAttr(n) ==
    CASE n = "pi"   -> PiVal(1)
      [] n = "sqrt" -> BuiltinVal("math.sqrt")
      [] OTHER      -> Unbound

\* obj.attr of an instance or of the module math.
Attr(obj, n) ==
    IF obj.t = "inst" THEN heap[obj.v][n]
    ELSE IF obj = ModuleVal(<<"math">>) THEN MathAttr(n)
    ELSE Unbound

ExecLoadAttr ==
    /\ At("load_attr")
    /\ LET obj == Top(Cur.stack)
       IN  IF Attr(obj, Ins.arg).t = "unbound"
           THEN Raise("AttributeError")
           ELSE Replace(1, Attr(obj, Ins.arg)) /\ exc' = exc
    /\ steps' = steps + 1
    /\ UNCHANGED <<importVars, heap, created, op, result, calls, returns>>

\* obj.attr = value: the object is on top of the stack, the value below it.
ExecStoreAttr ==
    /\ At("store_attr")
    /\ LET obj == TopK(2)[2]
           val == TopK(2)[1]
       IN  /\ obj.t = "inst"
           /\ heap' = [heap EXCEPT ![obj.v][Ins.arg] = val]
    /\ frames' = [frames EXCEPT
                    ![Len(frames)].stack = SubSeq(@, 1, Len(@) - 2),
                    ![Len(frames)].pc = @ + 1]
    /\ steps' = steps + 1
    /\ UNCHANGED <<importVars, created, op, result, exc, calls, returns>>

\* callee(args): the callee is below its arguments.  The caller resumes at
\* the next instruction when the callee returns.
ExecCall ==
    /\ At("call")
    /\ LET argc   == Ins.arg
           callee == TopK(argc + 1)[1]
           args   == SubSeq(TopK(argc + 1), 2, argc + 1)
       IN  IF callee.t # "func"
           THEN Raise("TypeError") /\ UNCHANGED calls
           ELSE /\ frames' =
                      Append([frames EXCEPT
                                ![Len(frames)].stack =
                                    SubSeq(@, 1, Len(@) - (argc + 1)),
                                ![Len(frames)].pc = @ + 1],
                             NewFrame(callee.v, args))
                /\ calls' = Append(calls, [caller |-> Cur.fn, site |-> Cur.pc,
                                           callee |-> callee.v, args |-> args])
                /\ exc' = exc
    /\ steps' = steps + 1
    /\ UNCHANGED <<importVars, heap, created, op, result, returns>>

RECURSIVE Power(_, _)
Power(b, n) == IF n = 0 THEN 1 ELSE b * Power(b, n - 1)

\* left <operator> right for the operands the demo's functions meet: ints,
\* and math.pi * n times an int.  Unbound stands for an unsupported pair.
BinaryResult(o, l, r) ==
    CASE l.t = "int" /\ r.t = "int" /\ o = "+" -> IntVal(l.v + r.v)
      [] l.t = "int" /\ r.t = "int" /\ o = "*" -> IntVal(l.v * r.v)
      [] l.t = "int" /\ r.t = "int" /\ o = "**" /\ r.v >= 0 ->
            IntVal(Power(l.v, r.v))
      [] l.t = "pi" /\ r.t = "int" /\ o = "*" -> PiVal(l.v * r.v)
      [] OTHER -> Unbound

ExecBinaryOp ==
    /\ At("binary_op")
    /\ LET l == TopK(2)[1]
           r == TopK(2)[2]
       IN  IF BinaryResult(Ins.arg, l, r) = Unbound
           THEN Raise("TypeError")
           ELSE Replace(2, BinaryResult(Ins.arg, l, r)) /\ exc' = exc
    /\ steps' = steps + 1
    /\ UNCHANGED <<importVars, heap, created, op, result, calls, returns>>

\* {value} in an f-string: format(value, ""), which for a str is the str.
ExecFormatValue ==
    /\ At("format_value")
    /\ Top(Cur.stack).t = "str"
    /\ Replace(1, StrVal(Top(Cur.stack).v))
    /\ steps' = steps + 1
    /\ UNCHANGED <<importVars, heap, created, op, result, exc, calls, returns>>

RECURSIVE Concat(_)
Concat(parts) ==
    IF parts = <<>> THEN <<>>
    ELSE parts[1].v \o Concat(Tail(parts))

\* The pieces of an f-string joined in order.
ExecBuildString ==
    /\ At("build_string")
    /\ Replace(Ins.arg, StrVal(Concat(TopK(Ins.arg))))
    /\ steps' = steps + 1
    /\ UNCHANGED <<importVars, heap, created, op, result, exc, calls, returns>>

\* The running function returns val: the value goes to the caller's stack;
\* a function main called returns to main (a class call yields the instance
\* __init__ was run on).
Return(val) ==
    /\ frames' = IF Len(frames) > 2
                 THEN [Pop(frames) EXCEPT
                         ![Len(frames) - 1].stack = Append(@, val)]
                 ELSE Pop(frames)
    /\ returns' = Append(returns,
                    [from |-> Cur.fn, to |-> frames[Len(frames) - 1].fn,
                     val |-> val])
    /\ result' = IF Len(frames) > 2 THEN result
                 ELSE IF op.fn = "Greeter" THEN Cur.locals["self"]
                 ELSE val

ExecReturn ==
    /\ At("return_value")
    /\ Return(Top(Cur.stack))
    /\ steps' = steps + 1
    /\ UNCHANGED <<importVars, heap, created, op, exc, calls>>

----------------------------------------------------------------------------
(* package/algebra.py: solve_quadratic, statement by statement.            *)
(*                                                                         *)
(* A number is m * 10^e, m an integer of at most four digits, and an       *)
(* argument is an int or a float.  Arithmetic is exact: a difference of    *)
(* two numbers with different exponents is kept as the pair (plus, minus), *)
(* and a root keeps its parts.  The largest float is                       *)
(* 1.7976931348623157 * 10^308.  Python's int arithmetic is exact and      *)
(* never overflows; a float power out of range raises OverflowError, and   *)
(* so does the conversion of an int out of range to float, which happens   *)
(* when the int meets a float in an operation and in math.sqrt.  Float and *)
(* complex division raise ZeroDivisionError when the divisor is zero.      *)

FloatMaxExp    == 308
FloatMaxDigits == 179769313

Num(m, e) == [m |-> m, e |-> e]

\* The number an int or a float is, and whether it is an int.
NumOf(val) == IF val.t = "int" THEN Num(val.v, 0) ELSE val.v
IsInt(val) == val.t \in {"int", "bigint"}

\* Small ints and floats; ints and floats 10^e and -10^e for the two large e.
Coefs      == {BigIntVal(Num(n, 0)) : n \in -MaxCoef .. MaxCoef}
FloatCoefs == {FloatVal(Num(n, 0)) : n \in -MaxCoef .. MaxCoef}
BigCoefs   ==
    {FloatVal(Num(s, e)) : s \in {-1, 1}, e \in {MidExp, BigExp}}
       \cup {BigIntVal(Num(s, e)) : s \in {-1, 1}, e \in {MidExp, BigExp}}

Abs(n) == IF n < 0 THEN -n ELSE n

RECURSIVE Digits(_)
Digits(n) == IF n < 10 THEN 1 ELSE 1 + Digits(n \div 10)

RECURSIVE Pow10(_)
Pow10(k) == IF k = 0 THEN 1 ELSE 10 * Pow10(k - 1)

\* The decimal exponent and the first nine digits of a number that is not 0.
Exp10(x) == x.e + Digits(Abs(x.m)) - 1
Lead9(x) == Abs(x.m) * Pow10(9 - Digits(Abs(x.m)))

Sign(x) == IF x.m > 0 THEN 1 ELSE IF x.m < 0 THEN -1 ELSE 0

\* |x| >= |y|, neither being 0.
MagGe(x, y) ==
    \/ Exp10(x) > Exp10(y)
    \/ Exp10(x) = Exp10(y) /\ Lead9(x) >= Lead9(y)

\* x >= y
Ge(x, y) ==
    IF Sign(x) # Sign(y) THEN Sign(x) > Sign(y)
    ELSE IF Sign(x) = 0 THEN TRUE
    ELSE IF Sign(x) = 1 THEN MagGe(x, y)
    ELSE MagGe(y, x)

Neg(x)    == Num(-x.m, x.e)
Mul(x, y) == Num(x.m * y.m, x.e + y.e)

\* x - y, as the number plus - minus.
Sub(x, y) ==
    IF x.e = y.e THEN [plus |-> Num(x.m - y.m, x.e), minus |-> Num(0, 0)]
    ELSE [plus |-> x, minus |-> y]

\* x ** 2
Pow2(x) == Mul(x, x)

\* The float is out of range.
Overflows(x) ==
    /\ x.m # 0
    /\ \/ Exp10(x) > FloatMaxExp
       \/ Exp10(x) = FloatMaxExp /\ Lead9(x) > FloatMaxDigits

AtLine(n) == At("line") /\ Ins.arg = n

\* The local variables of the running frame as numbers.
A == NumOf(Cur.locals["a"])
B == NumOf(Cur.locals["b"])
C == NumOf(Cur.locals["c"])

\* name = val in the running frame; the next statement becomes current.
Store(name, val) ==
    frames' = [frames EXCEPT
                 ![Len(frames)].locals =
                     [k \in DOMAIN @ \cup {name} |->
                         IF k = name THEN val ELSE @[k]],
                 ![Len(frames)].pc = @ + 1]

\* discriminant = b ** 2 - 4 * a * c
Discriminant(a, b, c) == Sub(Pow2(b), Mul(Num(4, 0), Mul(a, c)))

\* The discriminant is an int: a, b and c are ints.
IntDiscriminant ==
    IsInt(Cur.locals["a"]) /\ IsInt(Cur.locals["b"]) /\ IsInt(Cur.locals["c"])

\* Line 9 raises OverflowError: the float power b ** 2 is out of range, or
\* one side of the subtraction is a float and the other an int out of range
\* (the products of floats stay in range, a and c being small).
Line9Overflows ==
    \/ ~IsInt(Cur.locals["b"]) /\ Overflows(Pow2(B))
    \/ /\ IsInt(Cur.locals["b"])
       /\ ~(IsInt(Cur.locals["a"]) /\ IsInt(Cur.locals["c"]))
       /\ Overflows(Pow2(B))
    \/ /\ ~IsInt(Cur.locals["b"])
       /\ IsInt(Cur.locals["a"]) /\ IsInt(Cur.locals["c"])
       /\ Overflows(Mul(Num(4, 0), Mul(A, C)))

Line9 ==
    /\ AtLine(9)
    /\ IF Line9Overflows
       THEN Raise("OverflowError")
       ELSE /\ Store("discriminant",
                     [int |-> IntDiscriminant, val |-> Discriminant(A, B, C)])
            /\ exc' = exc
    /\ steps' = steps + 1
    /\ UNCHANGED <<importVars, heap, created, op, result, calls, returns>>

\* d >= 0
NonNeg(d) == Ge(d.plus, d.minus)

\* math.sqrt(d) if d >= 0 else math.sqrt(-d) * 1j: the square root of rad,
\* times 1j when imag.
SqrtDisc(d) ==
    IF NonNeg(d) THEN [rad |-> d, imag |-> FALSE]
                 ELSE [rad |-> Sub(d.minus, d.plus), imag |-> TRUE]

\* The part of plus - minus that is larger in magnitude.
Larger(d) ==
    IF d.minus.m = 0 THEN d.plus
    ELSE IF d.plus.m = 0 THEN d.minus
    ELSE IF MagGe(d.plus, d.minus) THEN d.plus ELSE d.minus

\* The int plus - minus is out of the range of a float.  The larger part
\* decides: the two differ by a factor of 10 at least and the model's large
\* numbers are powers of 10, not within that factor of the largest float.
IntOverflows(d) == Overflows(Larger(d))

\* math.sqrt converts an int argument to float (OverflowError out of range).
Line10 ==
    /\ AtLine(10)
    /\ LET d == Cur.locals["discriminant"]
       IN  IF d.int /\ IntOverflows(SqrtDisc(d.val).rad)
           THEN Raise("OverflowError")
           ELSE Store("sqrt_disc", SqrtDisc(d.val)) /\ exc' = exc
    /\ steps' = steps + 1
    /\ UNCHANGED <<importVars, heap, created, op, result, calls, returns>>

\* The divisor with a = 0 replaced by 1 / 2.
Divisor_guarded(a) == IF a.m = 0 THEN Num(1, 0) ELSE Mul(Num(2, 0), a)

\* 2 * a
Divisor(a) == Mul(Num(2, 0), a)

\* (-b + sign * sqrt_disc) / (2 * a), kept exact: -b, the signed root of rad
\* (times 1j when imag), the divisor 2 * a.
Root(a, b, sqrt_disc, sign) ==
    [minus_b |-> Neg(b), sign |-> sign, rad |-> sqrt_disc.rad,
     imag |-> sqrt_disc.imag, den |-> Divisor(a)]

\* -b + sqrt_disc and -b - sqrt_disc convert an int b to float.
NumeratorOverflows == IsInt(Cur.locals["b"]) /\ Overflows(B)

\* root1 = (-b + sqrt_disc) / (2 * a)
Line11 ==
    /\ AtLine(11)
    /\ IF NumeratorOverflows
       THEN Raise("OverflowError")
       ELSE IF Divisor(A).m = 0
       THEN Raise("ZeroDivisionError")
       ELSE Store("root1", Root(A, B, Cur.locals["sqrt_disc"], 1)) /\ exc' = exc
    /\ steps' = steps + 1
    /\ UNCHANGED <<importVars, heap, created, op, result, calls, returns>>

\* root2 = (-b - sqrt_disc) / (2 * a)
Line12 ==
    /\ AtLine(12)
    /\ IF NumeratorOverflows
       THEN Raise("OverflowError")
       ELSE IF Divisor(A).m = 0
       THEN Raise("ZeroDivisionError")
       ELSE Store("root2", Root(A, B, Cur.locals["sqrt_disc"], -1)) /\ exc' = exc
    /\ steps' = steps + 1
    /\ UNCHANGED <<importVars, heap, created, op, result, calls, returns>>

\* return root1, root2
Line13 ==
    /\ AtLine(13)
    /\ Return(TupleVal(<<Cur.locals["root1"], Cur.locals["root2"]>>))
    /\ steps' = steps + 1
    /\ UNCHANGED <<importVars, heap, created, op, exc, calls>>

StatementStep ==
    \/ Line9
    \/ Line10
    \/ Line11
    \/ Line12
    \/ Line13

----------------------------------------------------------------------------
(* main of run_demo.py, called by statement 6 of run_demo.py and running   *)
(* in the bottom frame.  The code's main calls foo(10), double_foo(10),    *)
(* triple_foo(10), Greeter("Shadow"), greeter.greet(), area_circle(5),     *)
(* perimeter_rectangle(4, 6) and solve_quadratic(1, 0, -4) once each, in   *)
(* this order.  Here main makes any sequence of these calls, the arguments *)
(* of the first five drawn from the bounded sets, so that what is shown of *)
(* a call holds for every argument, after every earlier call and with      *)
(* several instances.                                                      *)

\* main is running and is not inside a call.
Idle == frames = <<MainFrame>> /\ exc = "none"

\* main begins a call of function object f.
Enter(name, f, args) ==
    /\ frames' = Append(frames, NewFrame(f, args))
    /\ op' = [fn |-> name, args |-> args]
    /\ result' = Unbound
    /\ calls' = <<[caller |-> MainFn, site |-> 0, callee |-> f, args |-> args]>>
    /\ returns' = <<>>
    /\ steps' = 0

\* foo(10), double_foo(10), triple_foo(10)
MainCall ==
    /\ Idle
    /\ \E name \in {"foo", "double_foo", "triple_foo"}, x \in Ints :
          /\ ns[M_main][name].t = "func"
          /\ Enter(name, ns[M_main][name].v, <<IntVal(x)>>)
    /\ UNCHANGED <<importVars, heap, created, exc>>

\* greeter = Greeter("Shadow"): a new instance, then __init__ on it.
MainNewGreeter ==
    /\ Idle
    /\ Len(heap) < MaxInst
    /\ ns[M_main]["Greeter"].t = "class"
    /\ \E n \in NameStrings :
          /\ heap' = Append(heap, [name |-> Unbound])
          /\ created' = Append(created, n)
          /\ Enter("Greeter", Method(ns[M_main]["Greeter"].v, "__init__"),
                   <<InstVal(Len(heap) + 1), StrVal(n)>>)
    /\ UNCHANGED <<importVars, exc>>

\* greeter.greet()
MainGreet ==
    /\ Idle
    /\ ns[M_main]["Greeter"].t = "class"
    /\ \E i \in 1 .. Len(heap) :
          Enter("greet", Method(ns[M_main]["Greeter"].v, "greet"), <<InstVal(i)>>)
    /\ UNCHANGED <<importVars, heap, created, exc>>

\* area_circle(5)
MainAreaCircle ==
    /\ Idle
    /\ ns[M_main]["area_circle"].t = "func"
    /\ Enter("area_circle", ns[M_main]["area_circle"].v, <<IntVal(5)>>)
    /\ UNCHANGED <<importVars, heap, created, exc>>

\* perimeter_rectangle(4, 6)
MainPerimeterRectangle ==
    /\ Idle
    /\ ns[M_main]["perimeter_rectangle"].t = "func"
    /\ Enter("perimeter_rectangle", ns[M_main]["perimeter_rectangle"].v,
             <<IntVal(4), IntVal(6)>>)
    /\ UNCHANGED <<importVars, heap, created, exc>>

\* main calls solve_quadratic(a, b, c), the arguments taken from three sets.
SolveQuadraticCall(as, bs, cs) ==
    /\ Idle
    /\ ns[M_main]["solve_quadratic"].t = "func"
    /\ \E a \in as, b \in bs, c \in cs :
          Enter("solve_quadratic", ns[M_main]["solve_quadratic"].v, <<a, b, c>>)
    /\ UNCHANGED <<importVars, heap, created, exc>>

\* roots = solve_quadratic(1, 0, -4)
MainSolveQuadratic ==
    SolveQuadraticCall({IntVal(1)}, {IntVal(0)}, {IntVal(-4)})

\* solve_quadratic on every triple of small ints and floats, b also a large
\* int or float whose square is in the range of a float, and one whose
\* square is out of it.
AnySolveQuadratic ==
    SolveQuadraticCall(Coefs \cup FloatCoefs,
                       Coefs \cup FloatCoefs \cup BigCoefs,
                       Coefs \cup FloatCoefs)

\* main returns; statement 6 of run_demo.py is done.
MainReturn ==
    /\ Idle
    /\ frames' = <<>>
    /\ AdvanceImport
    /\ UNCHANGED <<sys_modules, ns, isteps, heap, created, op, result, exc,
                   calls, returns, steps>>

MachineStep ==
    \/ ExecLoadFast
    \/ ExecLoadGlobal
    \/ ExecLoadConst
    \/ ExecLoadAttr
    \/ ExecStoreAttr
    \/ ExecCall
    \/ ExecBinaryOp
    \/ ExecFormatValue
    \/ ExecBuildString
    \/ ExecReturn

MainStep ==
    \/ MainCall
    \/ MainNewGreeter
    \/ MainGreet
    \/ MainAreaCircle
    \/ MainPerimeterRectangle
    \/ MainSolveQuadratic
    \/ MainReturn

----------------------------------------------------------------------------
\* The interpreter as run_demo.py starts.
Boot ==
    /\ sys_modules = {M_main}
    /\ ns = [m \in Modules |-> [n \in GlobalNames |-> Unbound]]
    /\ istack = <<[mod |-> M_main, pc |-> 1]>>
    /\ isteps = 0
    /\ frames = <<>>
    /\ heap = <<>>
    /\ created = <<>>
    /\ op = [fn |-> "none", args |-> <<>>]
    /\ result = Unbound
    /\ exc = "none"
    /\ calls = <<>>
    /\ returns = <<>>
    /\ steps = 0

Init == Boot

Next ==
    \/ ImportStep
    \/ MachineStep
    \/ StatementStep
    \/ MainStep

Spec == Init /\ [][Next]_vars

\* run_demo.py with main calling solve_quadratic only, on any coefficients.
NextAlgebra ==
    \/ ImportStep
    \/ StatementStep
    \/ AnySolveQuadratic
    \/ MainReturn

SpecAlgebra == Init /\ [][NextAlgebra]_vars

----------------------------------------------------------------------------
(* Reading the logs of the call main is making.                            *)

F_increment       == F(M_foo, "_increment")
F_foo             == F(M_foo, "foo")
F_double_foo      == F(M_bar, "double_foo")
F_triple_foo      == F(M_bar, "triple_foo")
F_format_greeting == F(M_bar, "_format_greeting")
F_init            == F(M_bar, "Greeter.__init__")
F_greet           == F(M_bar, "Greeter.greet")
F_solve_quadratic == F(M_algebra, "solve_quadratic")

\* main's call has returned.
Done == op.fn # "none" /\ Len(frames) <= 1 /\ exc = "none"

\* The integer main passed.
X == op.args[1].v

CallsBy(f)     == SelectSeq(calls, LAMBDA c : c.caller = f)
CallsTo(f)     == SelectSeq(calls, LAMBDA c : c.callee = f)
ReturnsTo(f)   == SelectSeq(returns, LAMBDA r : r.to = f)
ReturnsFrom(f) == SelectSeq(returns, LAMBDA r : r.from = f)

\* The positions of the call instructions in a function's code.
CallSites(fd) == {i \in 1 .. Len(fd.code) : fd.code[i].op = "call"}

\* The functions entered, in order, and the (from, to) pairs of the returns.
Entries == [i \in 1 .. Len(calls) |-> calls[i].callee.name]
Exits   == [i \in 1 .. Len(returns) |-> <<returns[i].from.name, returns[i].to.name>>]

IsPrefix(s, t) == Len(s) <= Len(t) /\ \A i \in 1 .. Len(s) : s[i] = t[i]

----------------------------------------------------------------------------
\* C1: for every integer x, foo(x) returns x + 1 and gets it from exactly one
\* call of _increment(x), whose result it returns unchanged.
C1_FooIncrementsOnce ==
    /\ (op.fn = "foo" /\ Done) =>
          /\ result = IntVal(X + 1)
          /\ Len(CallsBy(F_foo)) = 1
          /\ CallsBy(F_foo)[1].callee = F_increment
          /\ CallsBy(F_foo)[1].args = <<IntVal(X)>>
          /\ Len(ReturnsFrom(F_increment)) = 1
          /\ ReturnsFrom(F_increment)[1].val = result
    \* wherever foo runs, what it returns is what _increment just returned to it
    /\ \A k \in 1 .. Len(returns) :
          returns[k].from = F_foo =>
             /\ k > 1
             /\ returns[k - 1].from = F_increment
             /\ returns[k - 1].to = F_foo
             /\ returns[k - 1].val = returns[k].val

C1_Witness ==
    /\ op = [fn |-> "foo", args |-> <<IntVal(2)>>]
    /\ Done
    /\ result = IntVal(3)
    /\ Len(CallsTo(F_increment)) = 1

\* C2: for every integer x, double_foo(x) is twice what foo(x) returned,
\* 2 * (x + 1); double_foo(3) = 8.
C2_DoubleFoo ==
    (op.fn = "double_foo" /\ Done) =>
       /\ result = IntVal(2 * (X + 1))
       /\ Len(ReturnsTo(F_double_foo)) = 1
       /\ ReturnsTo(F_double_foo)[1].from = F_foo
       /\ result = IntVal(2 * ReturnsTo(F_double_foo)[1].val.v)
       /\ CallsBy(F_double_foo)[1].args = <<IntVal(X)>>
       /\ (X = 3 => result = IntVal(8))

C2_Witness ==
    /\ op = [fn |-> "double_foo", args |-> <<IntVal(3)>>]
    /\ Done
    /\ result = IntVal(8)

\* C3: for every integer x, triple_foo(x) is 3 * (x + 1), three times what
\* foo(x) returns, computed as double_foo(x) + foo(x).
C3_TripleFoo ==
    (op.fn = "triple_foo" /\ Done) =>
       /\ result = IntVal(3 * (X + 1))
       /\ Len(ReturnsTo(F_triple_foo)) = 2
       /\ ReturnsTo(F_triple_foo)[1].from = F_double_foo
       /\ ReturnsTo(F_triple_foo)[2].from = F_foo
       /\ ReturnsTo(F_triple_foo)[1].val = IntVal(2 * (X + 1))
       /\ ReturnsTo(F_triple_foo)[2].val = IntVal(X + 1)
       /\ result = IntVal(ReturnsTo(F_triple_foo)[1].val.v
                          + ReturnsTo(F_triple_foo)[2].val.v)
       /\ result = IntVal(3 * ReturnsTo(F_triple_foo)[2].val.v)
       /\ \A k \in 1 .. 2 : CallsBy(F_triple_foo)[k].args = <<IntVal(X)>>

C3_Witness ==
    /\ op = [fn |-> "triple_foo", args |-> <<IntVal(-2)>>]
    /\ Done
    /\ result = IntVal(-3)

\* C4: the body of triple_foo holds exactly two call expressions, double_foo(x)
\* and foo(x): the calls whose caller is triple_foo are those two and no
\* others; the calls double_foo and foo make are theirs, not triple_foo's.
C4_TwoCallSites ==
    /\ Cardinality(CallSites(FunctionBody(F_triple_foo))) = 2
    /\ \A k \in 1 .. Len(calls) :
          calls[k].caller = F_triple_foo =>
             calls[k].site \in CallSites(FunctionBody(F_triple_foo))
    /\ Len(CallsBy(F_triple_foo)) <= 2
    /\ (op.fn = "triple_foo" /\ Done) =>
          /\ Len(CallsBy(F_triple_foo)) = 2
          /\ CallsBy(F_triple_foo)[1].callee = F_double_foo
          /\ CallsBy(F_triple_foo)[2].callee = F_foo
          /\ {CallsBy(F_triple_foo)[k].site : k \in 1 .. 2}
                = CallSites(FunctionBody(F_triple_foo))
          \* the nested calls: double_foo -> foo, foo -> _increment twice
          /\ Len(calls) = 6
          /\ Len(CallsBy(F_double_foo)) = 1
          /\ Len(CallsBy(F_foo)) = 2

C4_Witness ==
    /\ op.fn = "triple_foo"
    /\ Done
    /\ Len(CallsBy(F_triple_foo)) = 2
    /\ Len(calls) = 6

----------------------------------------------------------------------------
(* The import graph.                                                       *)

\* The modules the from-import statements of module m name.
Imports(m) ==
    {ImportTarget(m, Body(m)[k]) :
        k \in {j \in 1 .. Len(Body(m)) : Body(m)[j].op = "import_from"}}

RECURSIVE ReachableIn(_, _)
ReachableIn(m, k) ==
    IF k = 0 THEN {m}
    ELSE LET r == ReachableIn(m, k - 1)
         IN  r \cup UNION {Imports(x) : x \in r}

\* No module imports itself, directly or through other modules.
Acyclic ==
    \A m \in Modules :
       m \notin UNION {ReachableIn(n, Cardinality(Modules)) : n \in Imports(m)}

\* m has been executed to the end of its body.
Loaded(m) ==
    m \in sys_modules /\ \A k \in 1 .. Len(istack) : istack[k].mod # m

RECURSIVE SumLen(_)
SumLen(ms) ==
    IF ms = {} THEN 0
    ELSE LET m == CHOOSE x \in ms : TRUE
         IN  Len(Body(m)) + 2 + SumLen(ms \ {m})

\* Every module is entered once, runs each statement once and ends once.
ImportStepsBound == SumLen(Modules) - 1

\* C5: foo called in double_foo resolves through bar.py's "from .foo import
\* foo" to the one function foo.py defines, never a duplicate, and so does the
\* foo that demo/__init__.py re-exports; resolving the names __init__.py
\* imports (foo, double_foo, Greeter) ends at the defining module, the import
\* graph __init__ -> {foo, bar}, bar -> foo, foo -> {} having no cycle.
C5_ImportResolution ==
    /\ Imports(M_demo) = {M_foo, M_bar}
    /\ Imports(M_bar) = {M_foo}
    /\ Imports(M_foo) = {}
    /\ Acyclic
    \* the import system never fails, never re-enters a module, and stops
    /\ exc # "ImportError"
    /\ \A i, j \in 1 .. Len(istack) : istack[i].mod = istack[j].mod => i = j
    /\ isteps <= ImportStepsBound
    /\ (Importing /\ exc = "none" /\ frames = <<>>) => ENABLED ImportStep
    \* one function object foo, the one foo.py made
    /\ \A m \in Modules :
          ns[m]["foo"].t = "func" => ns[m]["foo"] = FuncVal(M_foo, "foo")
    /\ Loaded(M_bar) =>
          /\ ns[M_bar]["foo"].t = "func"
          /\ ns[M_bar]["foo"] = ns[M_foo]["foo"]
    /\ Loaded(M_demo) =>
          /\ ns[M_demo]["foo"] = FuncVal(M_foo, "foo")
          /\ ns[M_demo]["foo"] = ns[M_foo]["foo"]
          /\ ns[M_demo]["double_foo"] = FuncVal(M_bar, "double_foo")
          /\ ns[M_demo]["double_foo"] = ns[M_bar]["double_foo"]
          /\ ns[M_demo]["Greeter"] = ClassVal(M_bar, "Greeter")
          /\ ns[M_demo]["Greeter"] = ns[M_bar]["Greeter"]
    \* the call in double_foo reaches that function
    /\ \A k \in 1 .. Len(calls) :
          calls[k].caller = F_double_foo => calls[k].callee = ns[M_foo]["foo"].v

C5_Witness ==
    /\ Loaded(M_demo)
    /\ Loaded(M_bar)
    /\ ns[M_bar]["foo"] = FuncVal(M_foo, "foo")
    /\ op.fn = "double_foo"
    /\ Done
    /\ Len(CallsBy(F_double_foo)) = 1

\* C6: the class Greeter yields exactly one call of _format_greeting, and its
\* caller is the method Greeter.greet: not Greeter.__init__, not
\* _format_greeting itself, not the module scope of bar.py.
C6_GreetCallsHelper ==
    /\ Cardinality(CallSites(FunctionBody(F_greet))) = 1
    /\ CallSites(FunctionBody(F_init)) = {}
    /\ CallSites(FunctionBody(F_format_greeting)) = {}
    /\ \A k \in 1 .. Len(calls) :
          calls[k].callee = F_format_greeting =>
             /\ calls[k].caller = F_greet
             /\ calls[k].caller.name = "Greeter.greet"
             /\ calls[k].site \in CallSites(FunctionBody(F_greet))
    \* nothing runs _format_greeting while bar.py is being executed
    /\ ~Loaded(M_bar) => calls = <<>>
    /\ op.fn = "Greeter" => Len(CallsTo(F_format_greeting)) = 0
    /\ (op.fn = "greet" /\ Done) =>
          /\ Len(CallsTo(F_format_greeting)) = 1
          /\ Len(calls) = 2

C6_Witness ==
    /\ op.fn = "greet"
    /\ Done
    /\ Len(calls) = 2
    /\ calls[2].caller = F_greet
    /\ calls[2].callee = F_format_greeting

TripleEntries ==
    <<"triple_foo", "double_foo", "foo", "_increment", "foo", "_increment">>

TripleExits ==
    << <<"_increment", "foo">>, <<"foo", "double_foo">>,
       <<"double_foo", "triple_foo">>, <<"_increment", "foo">>,
       <<"foo", "triple_foo">>, <<"triple_foo", "main">> >>

\* The functions on the call stack above main, outermost first.
StackNames == [i \in 1 .. Len(frames) - 1 |-> frames[i + 1].fn.name]

\* C7: every execution of triple_foo(x) enters triple_foo, double_foo, foo,
\* _increment, foo, _increment in this order, the stack is never deeper than
\* 4 and follows the chain triple_foo -> double_foo -> foo -> _increment,
\* every call returns to its own caller, and the execution ends with the
\* stack empty.
C7_TripleFooTrace ==
    op.fn = "triple_foo" =>
       /\ IsPrefix(Entries, TripleEntries)
       /\ IsPrefix(Exits, TripleExits)
       /\ Len(StackNames) <= 4
       /\ \/ IsPrefix(StackNames, <<"triple_foo", "double_foo", "foo", "_increment">>)
          \/ IsPrefix(StackNames, <<"triple_foo", "foo", "_increment">>)
       /\ \A k \in 1 .. Len(returns) :
             \E j \in 1 .. Len(calls) :
                /\ calls[j].callee = returns[k].from
                /\ calls[j].caller = returns[k].to
       \* it ends: no exception, always a next instruction, a bounded count
       /\ exc = "none"
       /\ Len(frames) > 1 => ENABLED MachineStep
       /\ steps <= Len(triple_foo.code) + Len(double_foo.code)
                   + 2 * Len(foo.code) + 2 * Len(_increment.code)
       /\ Len(frames) <= 1 =>
             /\ Entries = TripleEntries
             /\ Exits = TripleExits
             /\ Len(CallsTo(F_double_foo)) = 1
             /\ Len(CallsTo(F_foo)) = 2
             /\ Len(CallsTo(F_increment)) = 2

C7_Witness ==
    /\ op.fn = "triple_foo"
    /\ Done
    /\ Entries = TripleEntries
    /\ Exits = TripleExits

C7_DepthWitness ==
    /\ op.fn = "triple_foo"
    /\ StackNames = <<"triple_foo", "double_foo", "foo", "_increment">>

----------------------------------------------------------------------------
\* main called solve_quadratic with a = 0.
DegenerateCall == op.fn = "solve_quadratic" /\ NumOf(op.args[1]).m = 0

\* solve_quadratic has not returned.
InSolve == Len(frames) = 2 /\ Cur.fn = F_solve_quadratic

\* The line solve_quadratic is at.
SolveLine == IF InSolve THEN Ins.arg ELSE 0

\* C8 as claimed: for every b and c, solve_quadratic(0, b, c) ends in a
\* division-by-zero error raised at root1 and returns no roots.
C8_AlwaysZeroDivision ==
    DegenerateCall =>
       /\ InSolve
       /\ SolveLine <= 11
       /\ exc # "none" => (exc = "ZeroDivisionError" /\ SolveLine = 11)
       /\ exc = "none" => ENABLED StatementStep

\* The square of the b main passed is out of the range of a float.
SquareOverflows == Overflows(Pow2(NumOf(op.args[2])))

\* main passed three ints.
AllInt == \A i \in 1 .. 3 : IsInt(op.args[i])

\* C8 amended: for every finite b whose square is in the range of a float
\* and every c in that range, solve_quadratic(0, b, c) ends in a
\* division-by-zero error raised at root1.  For a finite b whose square is
\* out of that range it ends earlier, in
\* an OverflowError: raised at the discriminant (line 9) when a, b or c is a
\* float, and at sqrt_disc (line 10), the discriminant computed, when the
\* three are ints.  In every case it returns no roots.
C8_ZeroDivisionUnlessOverflow ==
    DegenerateCall =>
       /\ InSolve
       /\ SolveLine <= 11
       /\ exc = "none" => ENABLED StatementStep
       /\ IF ~SquareOverflows
          THEN /\ exc \in {"none", "ZeroDivisionError"}
               /\ exc = "ZeroDivisionError" => SolveLine = 11
          ELSE IF AllInt
          THEN /\ SolveLine <= 10
               /\ exc \in {"none", "OverflowError"}
               /\ exc = "OverflowError" => SolveLine = 10
          ELSE /\ SolveLine = 9
               /\ exc \in {"none", "OverflowError"}

C8_Witness ==
    /\ DegenerateCall
    /\ op.args[2] = BigIntVal(Num(-1, 0))
    /\ op.args[3] = BigIntVal(Num(1, 0))
    /\ exc = "ZeroDivisionError"
    /\ SolveLine = 11
    /\ Cur.locals["sqrt_disc"] =
          [rad |-> Sub(Num(1, 0), Num(0, 0)), imag |-> FALSE]

\* solve_quadratic(0, 10^BigExp, 1) on ints: OverflowError in math.sqrt.
C8_IntOverflowWitness ==
    /\ DegenerateCall
    /\ op.args = <<BigIntVal(Num(0, 0)), BigIntVal(Num(1, BigExp)),
                   BigIntVal(Num(1, 0))>>
    /\ exc = "OverflowError"
    /\ SolveLine = 10
    /\ Cur.locals["discriminant"] =
          [int |-> TRUE, val |-> Sub(Num(1, 2 * BigExp), Num(0, 0))]

\* solve_quadratic(0, 1e200, 1) on a float b: OverflowError in b ** 2.
C8_FloatOverflowWitness ==
    /\ DegenerateCall
    /\ op.args = <<BigIntVal(Num(0, 0)), FloatVal(Num(1, BigExp)),
                   BigIntVal(Num(1, 0))>>
    /\ exc = "OverflowError"
    /\ SolveLine = 9

----------------------------------------------------------------------------
Greeting(n) == <<"H", "e", "l", "l", "o", ",", " ">> \o n \o <<"!">>

\* Greeter(n) has returned the i-th instance.
Constructed(i) ==
    /\ i \in 1 .. Len(heap)
    /\ ~(op.fn = "Greeter" /\ ~Done /\ i = Len(heap))

\* C9: once Greeter(n) is constructed, every greet() returns "Hello, " + n +
\* "!" and the instance's name stays n, whatever calls are made on this or
\* any other instance.
C9_GreetIsPure ==
    /\ Len(created) = Len(heap)
    /\ \A i \in 1 .. Len(heap) :
          Constructed(i) => heap[i].name = StrVal(created[i])
    /\ (op.fn = "Greeter" /\ Done) => result = InstVal(Len(heap))
    /\ (op.fn = "greet" /\ Done) =>
          /\ result = StrVal(Greeting(created[op.args[1].v]))
          /\ result = StrVal(Greeting(heap[op.args[1].v].name.v))

C9_Witness ==
    /\ Len(heap) = 2
    /\ created[1] # created[2]
    /\ op = [fn |-> "greet", args |-> <<InstVal(1)>>]
    /\ Done
    /\ result = StrVal(Greeting(created[1]))
    /\ heap[2].name = StrVal(created[2])
====
